---- MODULE Spec2Model ----
(***************************************************************************)
(* The assessment analytics engine of src/src/utils/data_processing.py:    *)
(* process_assessment_data builds a pandas DataFrame from a list of        *)
(* assessment dicts, and calculate_summary_stats, calculate_progress,      *)
(* generate_trend_data and identify_areas_of_concern aggregate it.         *)
(*                                                                         *)
(* A float64 is modelled as an exact fraction <<n, d>> with d >= 0:        *)
(* <<0, 0>> is NaN, <<1, 0>> and <<-1, 0>> are +inf and -inf.  Rounding is *)
(* not modelled.  A DataFrame is [columns, rows]: the set of column names  *)
(* and the sequence of rows, each row a record with one field per column.  *)
(* A str where a number or a datetime is expected is the 1-tuple <<text>>.  *)
(***************************************************************************)
EXTENDS Integers, Sequences, FiniteSets, TLC

VARIABLES
    assessments,  \* List[Dict]: the records handed to process_assessment_data
    built,        \* whether process_assessment_data has returned df
    df,           \* the DataFrame every aggregation call is given
    call,         \* the last call: its name and arguments
    result,       \* what the last call returned
    store,        \* the rows of the assessments table of the database
    clock         \* the ticks of time gone by since the first day began

vars == <<assessments, built, df, call, result, store, clock>>

(***************************************************************************)
(* float64 arithmetic                                                      *)
(***************************************************************************)
NaN == <<0, 0>>

Abs(n) == IF n < 0 THEN -n ELSE n

Sign(n) == IF n < 0 THEN -1 ELSE IF n > 0 THEN 1 ELSE 0

RECURSIVE GCD(_, _)
GCD(a, b) == IF b = 0 THEN a ELSE GCD(b, a % b)

\* The canonical form of n/d: lowest terms, d >= 0; n/0 is an infinity or NaN.
Frac(n, d) ==
    IF d = 0 THEN <<Sign(n), 0>>
    ELSE LET g == GCD(Abs(n), Abs(d))
             s == Sign(d)
         IN  <<(s * n) \div g, (s * d) \div g>>

Float(i) == <<i, 1>>

IsNaN(x) == x = NaN

FAdd(x, y) == Frac(x[1] * y[2] + y[1] * x[2], x[2] * y[2])

FSub(x, y) == Frac(x[1] * y[2] - y[1] * x[2], x[2] * y[2])

FMul(x, y) == Frac(x[1] * y[1], x[2] * y[2])

FDiv(x, y) == Frac(x[1] * y[2], x[2] * y[1])

\* x < y; every comparison with NaN is False.
FLess(x, y) ==
    /\ ~IsNaN(x)
    /\ ~IsNaN(y)
    /\ x # y
    /\ IF x[2] = 0 THEN x[1] < 0
       ELSE IF y[2] = 0 THEN y[1] > 0
       ELSE x[1] * y[2] < y[1] * x[2]

\* x != y on floats: NaN differs from everything, itself included.
FNotEqual(x, y) == IsNaN(x) \/ IsNaN(y) \/ x # y

(***************************************************************************)
(* Series helpers                                                          *)
(***************************************************************************)
EmptyDict == <<>>

Range(s) == {s[i] : i \in DOMAIN s}

\* Series.dropna(): the values that are not NaN, in order.
DropNa(s) == SelectSeq(s, LAMBDA v : ~IsNaN(v))

RECURSIVE FSum(_)
FSum(s) == IF s = <<>> THEN Float(0) ELSE FAdd(Head(s), FSum(Tail(s)))

RECURSIVE Insert(_, _)
Insert(v, s) ==
    IF s = <<>> THEN <<v>>
    ELSE IF FLess(v, Head(s)) THEN <<v>> \o s
    ELSE <<Head(s)>> \o Insert(v, Tail(s))

RECURSIVE SortFloats(_)
SortFloats(s) == IF s = <<>> THEN <<>> ELSE Insert(Head(s), SortFloats(Tail(s)))

\* Mutant of MeanDenominator: the NaN values are counted (as zeros).
MeanDenominator_AllRows(s) == Len(s)

\* The number of values a skipna reduction divides by.
MeanDenominator(s) == Len(DropNa(s))

\* Series.mean(): NaN values are skipped; the mean of no value is NaN.
Mean(s) == FDiv(FSum(DropNa(s)), Float(MeanDenominator(s)))

\* The median of the sorted, NaN-free values v (v not empty).
MedianOfSorted(v) ==
    LET n == Len(v)
    IN  IF n % 2 = 1 THEN v[(n + 1) \div 2]
        ELSE FDiv(FAdd(v[n \div 2], v[n \div 2 + 1]), Float(2))

\* Series.median(): NaN values are skipped; the median of no value is NaN.
Median(s) ==
    LET v == SortFloats(DropNa(s))
    IN  IF v = <<>> THEN NaN ELSE MedianOfSorted(v)

\* Series.min() and Series.max(), skipping NaN.
Min(s) ==
    LET v == SortFloats(DropNa(s))
    IN  IF v = <<>> THEN NaN ELSE v[1]

Max(s) ==
    LET v == SortFloats(DropNa(s))
    IN  IF v = <<>> THEN NaN ELSE v[Len(v)]

\* Series.std(), ddof = 1: the square root is kept symbolic, as the sample
\* variance under "sqrt"; NaN when fewer than 2 values.
Std(s) ==
    LET v == DropNa(s)
        n == Len(v)
        m == Mean(s)
        sq == [i \in 1..n |-> FMul(FSub(v[i], m), FSub(v[i], m))]
    IN  IF n < 2 THEN [sqrt |-> NaN]
        ELSE [sqrt |-> FDiv(FSum(sq), Float(n - 1))]

(***************************************************************************)
(* DataFrame helpers                                                       *)
(***************************************************************************)
score_columns == <<"social_score", "communication_score", "behavior_score">>

EmptyDataFrame == [columns |-> {}, rows |-> <<>>]

\* Whether a value is a str, not a number (or a datetime).
IsText(v) == Len(v) = 1

\* Whether the column holds a str: the column is then of dtype object, and
\* arithmetic and comparisons on it raise TypeError.
HasText(rows, col) == \E i \in DOMAIN rows : IsText(rows[i][col])

\* What a call that raises leaves in place of a result.
TypeError == [error |-> "TypeError"]

ValueError == [error |-> "ValueError"]

\* DataFrame.empty
Empty(d) == d.columns = {} \/ d.rows = <<>>

\* df[col]: the column as a sequence of values.
Column(rows, col) == [i \in DOMAIN rows |-> rows[i][col]]

(***************************************************************************)
(* process_assessment_data                                                 *)
(***************************************************************************)
\* pd.to_datetime on a datetime <<day, time>>: the Timestamp, in ticks since
\* the epoch.
TicksPerDay == 2

to_datetime(dt) == dt[1] * TicksPerDay + dt[2]

\* One cell of pd.DataFrame(assessments): a key the dict lacks becomes NaN,
\* any other value is kept as it is.
Cell(rec, col) == IF col \notin DOMAIN rec THEN NaN ELSE rec[col]

\* pd.DataFrame(assessments): the columns are the union of the dicts' keys.
DataFrame(a) ==
    LET cols == UNION {DOMAIN a[i] : i \in DOMAIN a}
    IN  [columns |-> cols,
         rows |-> [i \in DOMAIN a |-> [c \in cols |-> Cell(a[i], c)]]]

\* Whether pd.to_datetime raises: a date of the list is a str it cannot parse.
ProcessRaises(a) ==
    \E i \in DOMAIN a :
        "assessment_date" \in DOMAIN a[i] /\ IsText(a[i].assessment_date)

\* The DataFrame process_assessment_data returns when it does not raise.
process_assessment_data(a) ==
    IF a = <<>> THEN EmptyDataFrame
    ELSE LET d == DataFrame(a)
         IN  IF "assessment_date" \in d.columns
             THEN [d EXCEPT !.rows = [i \in DOMAIN d.rows |->
                      [d.rows[i] EXCEPT !.assessment_date = to_datetime(@)]]]
             ELSE d

(***************************************************************************)
(* calculate_summary_stats                                                 *)
(***************************************************************************)
\* Whether a reduction of calculate_summary_stats raises TypeError.
SummaryRaises(d) ==
    \E col \in Range(score_columns) : col \in d.columns /\ HasText(d.rows, col)

\* The mapping calculate_summary_stats returns when it does not raise.
calculate_summary_stats(d) ==
    [col \in {c \in Range(score_columns) : c \in d.columns} |->
        LET s == Column(d.rows, col)
        IN  [mean |-> Mean(s), median |-> Median(s), std |-> Std(s),
             min |-> Min(s), max |-> Max(s)]]

(***************************************************************************)
(* calculate_progress                                                      *)
(***************************************************************************)
\* Mutant of FilterChild: the child filter is dropped.
FilterChild_AllRows(rows, child_id) == rows

\* df[df['child_id'] == child_id]
FilterChild(rows, child_id) == SelectSeq(rows, LAMBDA r : r.child_id = child_id)

\* The orders sort_values('assessment_date') can leave the rows in: ascending
\* by date.  The default kind is quicksort, which is not stable, so rows with
\* equal dates may come out in any order.
RECURSIVE SortedOrders(_, _)
SortedOrders(rows, S) ==
    IF S = {} THEN {<<>>}
    ELSE LET least == {i \in S : \A j \in S :
                          rows[i].assessment_date <= rows[j].assessment_date}
         IN  UNION {{<<rows[i]>> \o rest : rest \in SortedOrders(rows, S \ {i})}
                    : i \in least}

\* Mutant of sort_values: the rows are left in the order of the table.
sort_values_Unsorted(rows) == {rows}

sort_values(rows) == SortedOrders(rows, DOMAIN rows)

\* Mutant of MinHistory: a single row is taken for a history.
MinHistory_OffByOne == 2 - 1

\* The number of rows a child needs for progress to be reported.
MinHistory == 2

\* Mutant of PercentChange: the guard against a zero initial score is dropped.
PercentChange_Unguarded(change, initial) == FMul(FDiv(change, initial), Float(100))

\* percent_change = (change / initial * 100) if initial != 0 else 0
PercentChange(change, initial) ==
    IF FNotEqual(initial, Float(0))
    THEN FMul(FDiv(change, initial), Float(100))
    ELSE Float(0)

\* The loop over score_columns, on the filtered and sorted child_data.
ProgressOf(columns, child_data) ==
    [col \in {c \in Range(score_columns) :
                 c \in columns /\ Len(child_data) >= MinHistory} |->
        LET initial == child_data[1][col]
            current == child_data[Len(child_data)][col]
            change == FSub(current, initial)
        IN  [initial_score |-> initial,
             current_score |-> current,
             absolute_change |-> change,
             percent_change |-> PercentChange(change, initial)]]

\* Whether current - initial raises TypeError for some column: one of the
\* two is a str.
ProgressRaises(columns, child_data) ==
    /\ Len(child_data) >= MinHistory
    /\ \E col \in Range(score_columns) :
          /\ col \in columns
          /\ \/ IsText(child_data[1][col])
             \/ IsText(child_data[Len(child_data)][col])

\* Every outcome of calculate_progress(df, child_id): a result, or TypeError.
calculate_progress(d, child_id) ==
    IF Empty(d) THEN {EmptyDict}
    ELSE LET child_rows == FilterChild(d.rows, child_id)
         IN  IF child_rows = <<>> THEN {EmptyDict}
             ELSE {IF ProgressRaises(d.columns, child_data) THEN TypeError
                   ELSE ProgressOf(d.columns, child_data) :
                      child_data \in sort_values(child_rows)}

(***************************************************************************)
(* generate_trend_data                                                     *)
(***************************************************************************)
bins == <<0, 5, 10, 15, 20>>

labels == <<"0-5", "6-10", "11-15", "16+">>

\* Mutant of InBin: the intervals are closed on the left (right = False).
InBin_LeftClosed(age, k) == bins[k] <= age /\ age < bins[k + 1]

\* Whether age falls in the k-th interval of pd.cut's bins (right = True).
InBin(age, k) == bins[k] < age /\ age <= bins[k + 1]

\* pd.cut(df['age'], bins, labels): the label of the interval, or "NaN".
cut(age) ==
    IF \E k \in DOMAIN labels : InBin(age, k)
    THEN labels[CHOOSE k \in DOMAIN labels : InBin(age, k)]
    ELSE "NaN"

\* Mutant of DateKey: the rows are grouped by calendar day (its midnight).
DateKey_CalendarDay(r) == (r.assessment_date \div TicksPerDay) * TicksPerDay

\* The key df.groupby('assessment_date') groups a row under.
DateKey(r) == r.assessment_date

\* df.groupby('assessment_date')[metric].mean().to_dict()
OverallTrend(rows, metric) ==
    [k \in {DateKey(rows[i]) : i \in DOMAIN rows} |->
        Mean(Column(SelectSeq(rows, LAMBDA r : DateKey(r) = k), metric))]

\* The groups df.groupby('age_group') iterates over: with observed = False
\* (the default of pandas 2) every category, with observed = True (the
\* default of pandas 3) the categories that occur.  NaN is never a group.
AgeGroups(rows, observed) ==
    IF observed THEN {rows[i].age_group : i \in DOMAIN rows} \ {"NaN"}
    ELSE Range(labels)

ByAgeGroup(rows, metric, observed) ==
    [g \in AgeGroups(rows, observed) |->
        Mean(Column(SelectSeq(rows, LAMBDA r : r.age_group = g), metric))]

\* df['age_group'] = pd.cut(df['age'], ...): the caller's DataFrame with the
\* column added (or overwritten).
WithAgeGroup(d) ==
    [columns |-> d.columns \cup {"age_group"},
     rows |-> [i \in DOMAIN d.rows |->
                  [c \in d.columns \cup {"age_group"} |->
                      IF c = "age_group" THEN cut(d.rows[i].age)
                      ELSE d.rows[i][c]]]]

\* Whether the groupby mean of generate_trend_data raises TypeError.
TrendRaises(d, metric) ==
    ~Empty(d) /\ metric \in d.columns /\ HasText(d.rows, metric)

\* The DataFrame generate_trend_data leaves behind.
generate_trend_data_df(d, metric) ==
    IF Empty(d) \/ metric \notin d.columns \/ TrendRaises(d, metric) THEN d
    ELSE WithAgeGroup(d)

generate_trend_data(d, metric, observed) ==
    IF Empty(d) \/ metric \notin d.columns THEN EmptyDict
    ELSE [overall |-> OverallTrend(d.rows, metric),
          by_age_group |-> ByAgeGroup(WithAgeGroup(d).rows, metric, observed)]

(***************************************************************************)
(* identify_areas_of_concern                                               *)
(***************************************************************************)
\* Mutant of IsLow: a score equal to the threshold qualifies too.
IsLow_OrEqual(v, threshold) == ~FLess(threshold, v) /\ ~IsNaN(v)

\* Mutant of IsLow: the comparison is turned around.
IsLow_Greater(v, threshold) == FLess(threshold, v)

\* df[col] < threshold
IsLow(v, threshold) == FLess(v, threshold)

\* col.replace('_score', '')
Area(col) ==
    CASE col = "social_score" -> "social"
      [] col = "communication_score" -> "communication"
      [] col = "behavior_score" -> "behavior"

ConcernOf(d, col, threshold) ==
    LET low_scores == SelectSeq(d.rows, LAMBDA r : IsLow(r[col], threshold))
    IN  IF low_scores = <<>> THEN <<>>
        ELSE <<[area |-> Area(col),
                count |-> Len(low_scores),
                affected_children |->
                    Cardinality({low_scores[i].child_id : i \in DOMAIN low_scores}),
                average_score |-> Mean(Column(low_scores, col))]>>

RECURSIVE Concerns(_, _, _)
Concerns(d, cols, threshold) ==
    IF cols = <<>> THEN <<>>
    ELSE (IF Head(cols) \in d.columns THEN ConcernOf(d, Head(cols), threshold)
          ELSE <<>>) \o Concerns(d, Tail(cols), threshold)

\* Whether df[col] < threshold raises TypeError for some column.
ConcernsRaises(d) ==
    \E col \in Range(score_columns) : col \in d.columns /\ HasText(d.rows, col)

\* The list identify_areas_of_concern returns when it does not raise.
identify_areas_of_concern(d, threshold) == Concerns(d, score_columns, threshold)

(***************************************************************************)
(* The inputs: lists of at most MaxRows assessment dicts, every dict of a  *)
(* list drawn from one family.  Histories vary the child, the timestamp    *)
(* (two timestamps of one calendar day) and the social score; Gaps holds   *)
(* dicts that lack the social_score key; AgeSamples varies the age across  *)
(* the bins of pd.cut, with a social score that differs within a bin;      *)
(* Malformed holds a dict with an unparseable date and one with a          *)
(* non-numeric score.                                                      *)
(***************************************************************************)
MaxRows == 3

ChildIds == {"C001", "C002"}

Datetimes == {<<1, 0>>, <<1, 1>>}

Thresholds == {4, 7}

Assessment(child_id, age, dt, scores) ==
    [k \in {"child_id", "age", "assessment_date", "notes"} \cup DOMAIN scores |->
        CASE k = "child_id" -> child_id
          [] k = "age" -> age
          [] k = "assessment_date" -> dt
          [] k = "notes" -> ""
          [] OTHER -> Float(scores[k])]

Histories ==
    {Assessment("C001", 8, dt, [social_score |-> v, communication_score |-> 6]) :
        dt \in Datetimes, v \in {0, 4}}
    \cup {Assessment("C002", 8, <<1, 0>>, [social_score |-> 4, communication_score |-> 3]),
          Assessment("C002", 8, <<1, 1>>, [social_score |-> 0, communication_score |-> 3])}

Gaps ==
    {Assessment("C001", 8, dt, [communication_score |-> 6]) : dt \in Datetimes}
    \cup {Assessment("C001", 8, dt, [social_score |-> 8, communication_score |-> 6]) :
             dt \in Datetimes}
    \cup {Assessment("C002", 8, <<1, 0>>, [communication_score |-> 6]),
          Assessment("C002", 8, <<1, 0>>, [social_score |-> 8, communication_score |-> 6])}

AgeSamples ==
    {Assessment("C001", a[1], <<1, 0>>, [social_score |-> a[2], behavior_score |-> 5]) :
        a \in {<<0, 4>>, <<5, 0>>, <<6, 4>>, <<10, 8>>, <<20, 8>>, <<21, 0>>}}

\* A well-formed dict, one whose assessment_date is a str that is no date,
\* and one whose social_score is a str.
Malformed ==
    LET good == Assessment("C001", 8, <<1, 0>>,
                           [social_score |-> 4, communication_score |-> 6])
        late == Assessment("C001", 8, <<1, 1>>,
                           [social_score |-> 4, communication_score |-> 6])
    IN  {good,
         [good EXCEPT !.assessment_date = <<"not a date">>],
         [late EXCEPT !.social_score = <<"high">>]}

Lists(S) == UNION {[1..n -> S] : n \in 0..MaxRows}

Inputs ==
    Lists(Histories) \cup Lists(Gaps) \cup Lists(AgeSamples) \cup Lists(Malformed)

(***************************************************************************)
(* The state machine                                                       *)
(***************************************************************************)
Init ==
    /\ assessments \in Inputs
    /\ built = FALSE
    /\ df = EmptyDataFrame
    /\ call = [op |-> "none"]
    /\ result = EmptyDict
    /\ store = <<>>
    /\ clock = 0

\* The call a function that raised leaves behind.
Raise(function, args, error) ==
    [k \in {"op", "function", "error"} \cup DOMAIN args |->
        CASE k = "op" -> "raise"
          [] k = "function" -> function
          [] k = "error" -> error.error
          [] OTHER -> args[k]]

ProcessAssessmentData ==
    /\ ~built
    /\ IF ProcessRaises(assessments)
       THEN /\ call' = Raise("process_assessment_data", EmptyDict, ValueError)
            /\ UNCHANGED <<built, df>>
       ELSE /\ built' = TRUE
            /\ df' = process_assessment_data(assessments)
            /\ call' = [op |-> "process_assessment_data"]
    /\ result' = EmptyDict
    /\ UNCHANGED <<assessments, store, clock>>

CalculateSummaryStats ==
    /\ built
    /\ IF SummaryRaises(df)
       THEN /\ call' = Raise("calculate_summary_stats", EmptyDict, TypeError)
            /\ result' = EmptyDict
       ELSE /\ call' = [op |-> "calculate_summary_stats"]
            /\ result' = calculate_summary_stats(df)
    /\ UNCHANGED <<assessments, built, df, store, clock>>

CalculateProgress ==
    /\ built
    /\ \E child_id \in ChildIds :
          \E outcome \in calculate_progress(df, child_id) :
              IF "error" \in DOMAIN outcome
              THEN /\ call' = Raise("calculate_progress",
                                    [child_id |-> child_id], outcome)
                   /\ result' = EmptyDict
              ELSE /\ call' = [op |-> "calculate_progress", child_id |-> child_id]
                   /\ result' = outcome
    /\ UNCHANGED <<assessments, built, df, store, clock>>

GenerateTrendData ==
    /\ built
    /\ \E metric \in Range(score_columns), observed \in BOOLEAN :
          /\ IF TrendRaises(df, metric)
             THEN /\ call' = Raise("generate_trend_data",
                                   [metric |-> metric], TypeError)
                  /\ result' = EmptyDict
             ELSE /\ call' = [op |-> "generate_trend_data", metric |-> metric]
                  /\ result' = generate_trend_data(df, metric, observed)
          /\ df' = generate_trend_data_df(df, metric)
    /\ UNCHANGED <<assessments, built, store, clock>>

IdentifyAreasOfConcern ==
    /\ built
    /\ \E threshold \in Thresholds :
          IF ConcernsRaises(df)
          THEN /\ call' = Raise("identify_areas_of_concern",
                                [threshold |-> threshold], TypeError)
               /\ result' = EmptyDict
          ELSE /\ call' = [op |-> "identify_areas_of_concern",
                           threshold |-> threshold]
               /\ result' = identify_areas_of_concern(df, Float(threshold))
    /\ UNCHANGED <<assessments, built, df, store, clock>>

Next ==
    \/ ProcessAssessmentData
    \/ CalculateSummaryStats
    \/ CalculateProgress
    \/ GenerateTrendData
    \/ IdentifyAreasOfConcern

Spec == Init /\ [][Next]_vars

(***************************************************************************)
(* The database: database/models.py and database/crud.py, as the data      *)
(* entry form of app/main.py uses them.  The app calls add_assessment and  *)
(* get_assessments only; update_assessment and delete_assessment have no   *)
(* caller and are left out.                                                *)
(***************************************************************************)
\* The number of rows the table is let grow to.
MaxStored == 2

\* The number of ticks the clock is let run.
MaxTicks == 3

\* datetime.utcnow() at tick c, as <<day, time of day>>.
utcnow(c) == <<1 + (c \div TicksPerDay), c % TicksPerDay>>

\* child_id = None of get_assessments.
None == ""

\* The days st.date_input is set to.
FormDates == {<<1, 0>>, <<2, 0>>}

\* The dict render_data_entry builds from the form on submit.
assessment_data(child_id, assessment_date, score, notes) ==
    [child_id |-> child_id,
     age |-> 8,
     assessment_date |-> assessment_date,
     social_score |-> score,
     communication_score |-> 5,
     behavior_score |-> 5,
     notes |-> notes]

\* What the form is submitted with.
FormData ==
    {assessment_data(child_id, assessment_date, sn[1], sn[2]) :
        child_id \in ChildIds, assessment_date \in FormDates,
        sn \in {<<1, "">>, <<7, "calm">>}}

\* The row Assessment(...) becomes on commit: the columns the constructor
\* is not given take their defaults.
NewAssessment(rows, data, now) ==
    [id |-> Len(rows) + 1,
     child_id |-> data.child_id,
     assessment_date |-> now,
     age |-> data.age,
     social_score |-> Float(data.social_score),
     communication_score |-> Float(data.communication_score),
     behavior_score |-> Float(data.behavior_score),
     notes |-> data.notes,
     created_at |-> now,
     updated_at |-> now]

\* The table after add_assessment(data).
add_assessment(rows, data, now) == Append(rows, NewAssessment(rows, data, now))

NotBefore(a, b) == a[1] > b[1] \/ (a[1] = b[1] /\ a[2] >= b[2])

\* The orders order_by(assessment_date.desc()) can return the rows in: rows
\* with equal dates come in any order.
RECURSIVE DescendingOrders(_, _)
DescendingOrders(rows, S) ==
    IF S = {} THEN {<<>>}
    ELSE LET latest == {i \in S : \A j \in S :
                           NotBefore(rows[i].assessment_date,
                                     rows[j].assessment_date)}
         IN  UNION {{<<rows[i]>> \o rest :
                        rest \in DescendingOrders(rows, S \ {i})}
                    : i \in latest}

\* Every list get_assessments(child_id) can return.
get_assessments(rows, child_id) ==
    LET query == IF child_id # None THEN FilterChild(rows, child_id) ELSE rows
    IN  DescendingOrders(query, DOMAIN query)

InitStore ==
    /\ assessments = <<>>
    /\ built = FALSE
    /\ df = EmptyDataFrame
    /\ call = [op |-> "none"]
    /\ result = EmptyDict
    /\ store = <<>>
    /\ clock = 0

\* Time goes by.
Tick ==
    /\ clock < MaxTicks
    /\ clock' = clock + 1
    /\ UNCHANGED <<assessments, built, df, call, result, store>>

\* The form is submitted: render_data_entry calls add_assessment.
AddAssessment ==
    /\ Len(store) < MaxStored
    /\ \E data \in FormData :
          /\ store' = add_assessment(store, data, utcnow(clock))
          /\ call' = [op |-> "add_assessment", data |-> data]
          /\ result' = store'[Len(store')]
    /\ UNCHANGED <<assessments, built, df, clock>>

GetAssessments ==
    /\ \E child_id \in ChildIds \cup {None} :
          /\ call' = [op |-> "get_assessments", child_id |-> child_id]
          /\ result' \in get_assessments(store, child_id)
    /\ UNCHANGED <<assessments, built, df, store, clock>>

NextStore ==
    \/ Tick
    \/ AddAssessment
    \/ GetAssessments

SpecStore == InitStore /\ [][NextStore]_vars

(***************************************************************************)
(* Properties of calculate_progress                                        *)
(***************************************************************************)
\* The rows of df that belong to the child of the last call.
ChildRows == {i \in DOMAIN df.rows : df.rows[i].child_id = call.child_id}

IsEarliest(i) ==
    \A j \in ChildRows : df.rows[i].assessment_date <= df.rows[j].assessment_date

IsLatest(i) ==
    \A j \in ChildRows : df.rows[j].assessment_date <= df.rows[i].assessment_date

MetricColumns == Range(score_columns) \cap df.columns

\* What C1 says every reported metric holds, with percent(change, initial) the
\* percent change it states: the scores of one earliest and one latest record
\* of the child, and their difference.
ProgressReported(percent(_, _)) ==
    \E first \in ChildRows, last \in ChildRows :
        /\ IsEarliest(first)
        /\ IsLatest(last)
        /\ \A col \in MetricColumns :
              /\ col \in DOMAIN result
              /\ result[col].initial_score = df.rows[first][col]
              /\ result[col].current_score = df.rows[last][col]
              /\ result[col].absolute_change =
                    FSub(df.rows[last][col], df.rows[first][col])
              /\ result[col].percent_change =
                    percent(result[col].absolute_change, result[col].initial_score)

\* C1 as stated: for a child with at least 2 records, progress reports for
\* each metric the score of the child's earliest record, the score of the
\* latest one, their difference, and percent_change = (absolute_change /
\* initial_score) * 100, whatever the initial score is.
C1_ProgressAsStated ==
    (call.op = "calculate_progress" /\ Cardinality(ChildRows) >= 2) =>
        ProgressReported(LAMBDA change, initial :
                             FMul(FDiv(change, initial), Float(100)))

\* C1 as amended: the same, with percent_change = (absolute_change /
\* initial_score) * 100 when initial_score is not 0, and 0 when it is 0.
C1_ProgressAmended ==
    (call.op = "calculate_progress" /\ Cardinality(ChildRows) >= 2) =>
        ProgressReported(LAMBDA change, initial :
                             IF initial = Float(0) THEN Float(0)
                             ELSE FMul(FDiv(change, initial), Float(100)))

\* A child with two records on different timestamps, a record of another
\* child that is no later than either and holds another score, and a non-zero
\* percent change reported.
C1_Witness ==
    /\ call.op = "calculate_progress"
    /\ Cardinality(ChildRows) >= 2
    /\ \E i \in ChildRows, j \in ChildRows :
          df.rows[i].assessment_date < df.rows[j].assessment_date
    /\ "social_score" \in DOMAIN result
    /\ \E i \in DOMAIN df.rows :
          /\ df.rows[i].child_id # call.child_id
          /\ \A j \in ChildRows :
                df.rows[i].assessment_date <= df.rows[j].assessment_date
          /\ df.rows[i]["social_score"] # Float(4)
    /\ result["social_score"].initial_score = Float(4)
    /\ result["social_score"].percent_change = Float(-100)

\* C2: progress returns the empty result, and does not raise, whenever the
\* table is empty or the child has no row or exactly one row in it; a
\* non-empty result is returned only for a child with at least 2 rows.
C2_InsufficientHistory ==
    /\ call.op = "calculate_progress" =>
          /\ (Empty(df) \/ Cardinality(ChildRows) < 2) => result = EmptyDict
          /\ result # EmptyDict => Cardinality(ChildRows) >= 2
    /\ (call.op = "raise" /\ call.function = "calculate_progress") =>
          ~Empty(df) /\ Cardinality(ChildRows) >= 2

\* The child has exactly one row, among rows of another child.
C2_Witness ==
    /\ call.op = "calculate_progress"
    /\ Cardinality(ChildRows) = 1
    /\ Len(df.rows) = 3
    /\ result = EmptyDict

\* C3: whenever a reported initial_score is 0, the percent_change is exactly
\* 0, whatever the current score.
C3_ZeroInitial ==
    call.op = "calculate_progress" =>
        \A col \in DOMAIN result :
            result[col].initial_score = Float(0) =>
                result[col].percent_change = Float(0)

\* An initial score of 0 with a current score of 4.
C3_Witness ==
    /\ call.op = "calculate_progress"
    /\ "social_score" \in DOMAIN result
    /\ result["social_score"].initial_score = Float(0)
    /\ result["social_score"].current_score = Float(4)
    /\ result["social_score"].percent_change = Float(0)

(***************************************************************************)
(* Properties of identify_areas_of_concern                                 *)
(***************************************************************************)
\* The rows whose value of col is a number strictly below the integer t.
RowsBelow(col, t) ==
    {i \in DOMAIN df.rows :
        LET v == df.rows[i][col] IN v[2] > 0 /\ v[1] < t * v[2]}

RECURSIVE SumOver(_, _)
SumOver(S, col) ==
    IF S = {} THEN Float(0)
    ELSE LET i == CHOOSE i \in S : TRUE
         IN  FAdd(df.rows[i][col], SumOver(S \ {i}, col))

\* The arithmetic mean of col over the rows S (S not empty).
MeanOver(S, col) == FDiv(SumOver(S, col), Float(Cardinality(S)))

AreaNames ==
    [social_score |-> "social", communication_score |-> "communication",
     behavior_score |-> "behavior"]

\* C4: concerns returns, in the order social, communication, behavior, one
\* entry for each metric with at least one score strictly below the threshold
\* and none for any other metric; the entry holds the area name, the number of
\* qualifying rows, the number of distinct children among them and the mean
\* of their scores.
C4_ConcernEntries ==
    call.op = "identify_areas_of_concern" =>
        LET flagged == SelectSeq(score_columns, LAMBDA c :
                           c \in df.columns /\ RowsBelow(c, call.threshold) # {})
        IN  /\ Len(result) = Len(flagged)
            /\ \A k \in DOMAIN flagged :
                  LET low == RowsBelow(flagged[k], call.threshold)
                  IN  /\ result[k].area = AreaNames[flagged[k]]
                      /\ result[k].count = Cardinality(low)
                      /\ result[k].affected_children =
                            Cardinality({df.rows[i].child_id : i \in low})
                      /\ result[k].average_score = MeanOver(low, flagged[k])

\* A social score equal to the threshold that does not qualify beside two
\* rows of one child that do, and a second entry for communication.
C4_Witness ==
    /\ call.op = "identify_areas_of_concern"
    /\ Len(result) = 2
    /\ result[1].area = "social"
    /\ result[2].area = "communication"
    /\ result[1].count = 2
    /\ result[1].affected_children = 1
    /\ Len(df.rows) = 3
    /\ \E i \in DOMAIN df.rows : df.rows[i]["social_score"] = Float(call.threshold)

\* C5: for thresholds t1 <= t2, every area with an entry under t1 has an
\* entry under t2, with a count that is at least its count under t1.
C5_MonotonicInThreshold ==
    call.op = "identify_areas_of_concern" =>
        \A t2 \in {t \in Thresholds : call.threshold <= t} :
            LET higher == identify_areas_of_concern(df, Float(t2))
            IN  \A k \in DOMAIN result :
                    \E m \in DOMAIN higher :
                        /\ higher[m].area = result[k].area
                        /\ higher[m].count >= result[k].count

\* An area whose count grows, and an area that appears, with the threshold.
C5_Witness ==
    /\ call.op = "identify_areas_of_concern"
    /\ Len(result) = 1
    /\ \E t2 \in Thresholds :
          LET higher == identify_areas_of_concern(df, Float(t2))
          IN  /\ call.threshold < t2
              /\ Len(higher) = 2
              /\ higher[1].area = result[1].area
              /\ higher[1].count > result[1].count

(***************************************************************************)
(* Properties of calculate_summary_stats                                   *)
(***************************************************************************)
\* The values of col in the table that are numbers.
ValuesOf(col) ==
    {df.rows[i][col] : i \in {j \in DOMAIN df.rows : df.rows[j][col][2] > 0}}

\* x <= y on numbers.
AtMost(x, y) == x[2] > 0 /\ y[2] > 0 /\ x[1] * y[2] <= y[1] * x[2]

Trended == call.op = "generate_trend_data" /\ result # EmptyDict

\* The mean of col over the rows of S that hold a number; NaN if none does.
MeanOfNumbers(S, col) ==
    LET N == {i \in S : df.rows[i][col][2] > 0}
    IN  IF N = {} THEN NaN ELSE MeanOver(N, col)

\* The age buckets as the specification states them: label, lower bound
\* (excluded), upper bound (included).
Buckets ==
    {<<"0-5", 0, 5>>, <<"6-10", 5, 10>>, <<"11-15", 10, 15>>, <<"16+", 15, 20>>}

RowsInBucket(b) ==
    {i \in DOMAIN df.rows : b[2] < df.rows[i].age /\ df.rows[i].age <= b[3]}

\* C8: every row is assigned to the bucket whose interval (0,5], (5,10],
\* (10,15] or (15,20] holds its age, and to none if no interval does (an age
\* outside [0,20] in particular); the by_age_group value of a bucket is the
\* mean of the metric over exactly the rows assigned to it.
C8_AgeBuckets ==
    Trended =>
        /\ \A i \in DOMAIN df.rows :
              /\ \A b \in Buckets :
                    df.rows[i].age_group = b[1] <=> i \in RowsInBucket(b)
              /\ (df.rows[i].age < 0 \/ df.rows[i].age > 20) =>
                    df.rows[i].age_group = "NaN"
        /\ DOMAIN result.by_age_group \subseteq {b[1] : b \in Buckets}
        /\ \A b \in Buckets :
              b[1] \in DOMAIN result.by_age_group =>
                  result.by_age_group[b[1]] =
                      MeanOfNumbers(RowsInBucket(b), call.metric)

\* Rows of ages 6 and 10 share a bucket, whose value is the mean of their
\* scores; a row of age 21 is in no bucket.
C8_Witness ==
    /\ Trended
    /\ call.metric = "social_score"
    /\ {df.rows[i].age : i \in DOMAIN df.rows} = {6, 10, 21}
    /\ "6-10" \in DOMAIN result.by_age_group
    /\ result.by_age_group["6-10"] = Float(6)

\* C9: by_age_group has a key for a bucket if and only if at least one row
\* of the table falls in that bucket.
C9_OnlyOccupiedBuckets ==
    Trended =>
        \A b \in Buckets :
            b[1] \in DOMAIN result.by_age_group <=> RowsInBucket(b) # {}

\* C10: overall has exactly one key per distinct assessment_date of the
\* table, mapped to the mean of the metric over the rows with exactly that
\* timestamp; timestamps of one calendar day are separate keys.
C10_OverallByTimestamp ==
    Trended =>
        /\ DOMAIN result.overall =
              {df.rows[i].assessment_date : i \in DOMAIN df.rows}
        /\ \A d \in DOMAIN result.overall :
              result.overall[d] =
                  MeanOfNumbers({i \in DOMAIN df.rows :
                                    df.rows[i].assessment_date = d}, call.metric)

\* Two timestamps of one calendar day, one of them shared by two rows with
\* different scores.
C10_Witness ==
    /\ Trended
    /\ call.metric = "social_score"
    /\ Len(df.rows) = 3
    /\ DOMAIN result.overall = {to_datetime(<<1, 0>>), to_datetime(<<1, 1>>)}
    /\ result.overall[to_datetime(<<1, 0>>)] = Float(2)
    /\ result.overall[to_datetime(<<1, 1>>)] = Float(4)

(***************************************************************************)
(* Missing scores                                                          *)
(***************************************************************************)
\* The table with the records that miss col left out.
Without(col) ==
    [df EXCEPT !.rows = SelectSeq(df.rows, LAMBDA r : ~IsNaN(r[col]))]

\* C7: in every aggregation a record that misses a metric is excluded from
\* that metric's calculation: the result for the metric is the result on the
\* table without the record, and no reported score or mean is missing.
C7_MissingExcluded ==
    /\ call.op = "calculate_summary_stats" =>
          \A col \in DOMAIN result :
              /\ result[col] = calculate_summary_stats(Without(col))[col]
              /\ ~IsNaN(result[col].mean)
    /\ call.op = "calculate_progress" =>
          \A col \in DOMAIN result :
              /\ ~IsNaN(result[col].initial_score)
              /\ ~IsNaN(result[col].current_score)
              /\ \E r \in calculate_progress(Without(col), call.child_id) :
                    col \in DOMAIN r /\ r[col] = result[col]
    /\ Trended =>
          /\ \E observed \in BOOLEAN :
                result = generate_trend_data(Without(call.metric), call.metric, observed)
          /\ \A d \in DOMAIN result.overall : ~IsNaN(result.overall[d])
    /\ call.op = "identify_areas_of_concern" =>
          \A k \in DOMAIN result :
              \E col \in MetricColumns :
                  /\ <<result[k]>> = ConcernOf(Without(col), col, Float(call.threshold))
                  /\ ~IsNaN(result[k].average_score)

(***************************************************************************)
(* The table across calls                                                  *)
(***************************************************************************)
\* C11: no aggregation call changes the table it is given: after any
\* sequence of calls the table has the columns and the rows that
\* process_assessment_data returned.
C11_TableUnchanged ==
    built => df = process_assessment_data(assessments)

(***************************************************************************)
(* Re-ordering the rows                                                    *)
(***************************************************************************)
RowOrders(n) ==
    {p \in [1..n -> 1..n] : \A i, j \in 1..n : i # j => p[i] # p[j]}

\* The table with its rows in the order p.
Reordered(p) ==
    [df EXCEPT !.rows = [i \in DOMAIN df.rows |-> df.rows[p[i]]]]

\* The child's records that share its earliest date agree on every metric,
\* and so do those that share its latest date.
TiesAgree ==
    \A i, j \in ChildRows :
        ((IsEarliest(i) /\ IsEarliest(j)) \/ (IsLatest(i) /\ IsLatest(j))) =>
            \A col \in MetricColumns : df.rows[i][col] = df.rows[j][col]

\* C12 as stated: every permutation of the rows of the table yields the
\* progress that was returned, for every metric.
C12_ReorderAsStated ==
    call.op = "calculate_progress" =>
        \A p \in RowOrders(Len(df.rows)) :
            calculate_progress(Reordered(p), call.child_id) = {result}

\* C12 as amended: the same, for a child whose records that share its
\* earliest assessment_date agree on every metric, and likewise those that
\* share its latest assessment_date.
C12_ReorderAmended ==
    (call.op = "calculate_progress" /\ TiesAgree) =>
        \A p \in RowOrders(Len(df.rows)) :
            calculate_progress(Reordered(p), call.child_id) = {result}

\* Progress is reported for a child whose later record comes first in the
\* table, with a score that changed, among three rows.
C12_Witness ==
    /\ call.op = "calculate_progress"
    /\ TiesAgree
    /\ Len(df.rows) = 3
    /\ "social_score" \in DOMAIN result
    /\ result["social_score"].absolute_change # Float(0)
    /\ \E i, j \in ChildRows :
          i < j /\ df.rows[i].assessment_date > df.rows[j].assessment_date

\* A record of the input list that is malformed: its date is a str that is
\* no date, or one of its scores is a str.
IsMalformed(rec) ==
    \/ "assessment_date" \in DOMAIN rec /\ IsText(rec.assessment_date)
    \/ \E col \in Range(score_columns) : col \in DOMAIN rec /\ IsText(rec[col])

\* C13: process_assessment_data reports malformed input as an error, it never
\* returns a table built from a list that holds an unparseable date or a
\* non-numeric score.
C13_MalformedRejected ==
    built => \A i \in DOMAIN assessments : ~IsMalformed(assessments[i])

\* The half of C13 that the code has: a list holding an unparseable date
\* makes process_assessment_data raise, and no table is built from it.
C13_BadDateRaises ==
    /\ ProcessRaises(assessments) => ~built
    /\ (call.op = "raise" /\ call.function = "process_assessment_data") =>
           ProcessRaises(assessments)

\* A non-numeric score went through ingestion and is a cell of the table.
C13_TextInTable ==
    /\ call.op = "process_assessment_data"
    /\ "social_score" \in df.columns
    /\ HasText(df.rows, "social_score")

(***************************************************************************)
(* Properties of the database                                              *)
(***************************************************************************)
\* The stored row has the fields of data other than the date.
EnteredFields(row, data) ==
    /\ row.child_id = data.child_id
    /\ row.age = data.age
    /\ row.social_score = Float(data.social_score)
    /\ row.communication_score = Float(data.communication_score)
    /\ row.behavior_score = Float(data.behavior_score)
    /\ row.notes = data.notes

\* The rows of a list get_assessments returns that are the row just added.
Added(listing) == {i \in DOMAIN listing : listing[i].id = result.id}

\* C14: after add_assessment(data), the record get_assessments returns for it
\* has the child_id, age, three scores and notes of data, and the
\* assessment_date of data.
C14_StoredAsEntered ==
    call.op = "add_assessment" =>
        \A listing \in get_assessments(store, None) :
            /\ Added(listing) # {}
            /\ \A i \in Added(listing) :
                  /\ EnteredFields(listing[i], call.data)
                  /\ listing[i].assessment_date = call.data.assessment_date

\* The part of C14 that the code has: every field but the date is stored as
\* entered, and the date stored is the time the row was created at.
C14_DateOfTheStore ==
    call.op = "add_assessment" =>
        \A listing \in get_assessments(store, None) :
            /\ Added(listing) # {}
            /\ \A i \in Added(listing) :
                  /\ EnteredFields(listing[i], call.data)
                  /\ listing[i].assessment_date = listing[i].created_at

\* An assessment entered for the second day is stored among another one,
\* with a date of the first day.
C14_DateReplaced ==
    /\ call.op = "add_assessment"
    /\ Len(store) = 2
    /\ call.data.assessment_date = <<2, 0>>
    /\ result.assessment_date[1] = 1

=============================================================================
